---- MODULE Spec2Model ----
(***************************************************************************)
(* Model of the "Open in GitHub" editor command: the command handler of    *)
(* src/extension.ts and the repository resolver / URL builder of git.ts    *)
(* (src/unnamed/part_001).                                                 *)
(*                                                                         *)
(* Strings are TLC strings (Len, SubSeq and \o act on them), so the        *)
(* string tests of the source (startsWith, endsWith, includes, slice,      *)
(* trim, replace) are computed character by character.  Node's `path` is   *)
(* modelled in its POSIX flavour.                                          *)
(***************************************************************************)
EXTENDS Integers, Sequences, FiniteSets, TLC

VARIABLES
  editor,   \* vscode.window.activeTextEditor: JSUndef or an editor record
  inv,      \* per invocation: position (pc) and the locals of handler/getRepoInfo
  git,      \* per invocation: the cp.exec calls issued so far, with their outcomes
  host,     \* per invocation: what reached the host (error popups, console, browser)
  bArgs,    \* arguments of a direct call of the exported buildGitHubUrl
  bRet      \* its completion (NotCalled before the call)

vars == <<editor, inv, git, host, bArgs, bRet>>

-----------------------------------------------------------------------------
(* JavaScript values and completions *)

JSNull == [t |-> "null"]
JSUndef == [t |-> "undefined"]
JSStr(s) == [t |-> "string", v |-> s]
JSNum(n) == [t |-> "number", v |-> n]
RepoInfo(remoteUrl, branch, rootPath) ==
  [t |-> "object", remoteUrl |-> remoteUrl, branch |-> branch, rootPath |-> rootPath]

Return(v) == [kind |-> "return", val |-> v]
Throw(msg) == [kind |-> "throw", message |-> msg]
NotCalled == [kind |-> "notcalled"]

\* !x for the values the source tests: null, undefined, "", 0 are falsy
Falsy(x) ==
  \/ x.t \in {"null", "undefined"}
  \/ x.t = "string" /\ x.v = ""
  \/ x.t = "number" /\ x.v = 0

\* `${x}` for the values the source interpolates
TemplateStr(x) ==
  CASE x.t = "string" -> x.v
    [] x.t = "number" -> ToString(x.v)
    [] x.t = "undefined" -> "undefined"
    [] x.t = "null" -> "null"
    [] OTHER -> "[object Object]"

-----------------------------------------------------------------------------
(* String.prototype methods used by the source *)

startsWith(s, p) == Len(s) >= Len(p) /\ SubSeq(s, 1, Len(p)) = p

endsWith(s, p) == Len(s) >= Len(p) /\ SubSeq(s, Len(s) - Len(p) + 1, Len(s)) = p

includes(s, p) ==
  \E k \in 1..(Len(s) - Len(p) + 1) : SubSeq(s, k, k + Len(p) - 1) = p

\* s.slice(n) for n >= 0
sliceFrom(s, n) == SubSeq(s, n + 1, Len(s))

\* s.slice(0, -n) for n >= 0
sliceDropLast(s, n) == SubSeq(s, 1, Len(s) - n)

IsWhitespace(c) == c \in {" ", "\n", "\t", "\r"}

SetMin(S) == CHOOSE x \in S : \A y \in S : x <= y

SetMax(S) == CHOOSE x \in S : \A y \in S : y <= x

\* position (1-based) of the first character c of s, or 0
FirstIndexOf(s, c) ==
  IF \E k \in 1..Len(s) : SubSeq(s, k, k) = c
  THEN SetMin({k \in 1..Len(s) : SubSeq(s, k, k) = c})
  ELSE 0

\* s between its first and last characters at the positions `kept`
Between(s, kept) == IF kept = {} THEN "" ELSE SubSeq(s, SetMin(kept), SetMax(kept))

\* s.trim()
trim(s) == Between(s, {k \in 1..Len(s) : ~IsWhitespace(SubSeq(s, k, k))})

\* s.replace(/\\/g, '/'), one backslash (at position k) at a time
RECURSIVE replaceBackslashes(_)
ReplaceAt(s, k) ==
  IF k = 0 THEN s
  ELSE SubSeq(s, 1, k - 1) \o "/" \o replaceBackslashes(SubSeq(s, k + 1, Len(s)))

\* (v is the value of s, evaluated once)
replaceBackslashes(s) ==
  CHOOSE r \in {ReplaceAt(v, FirstIndexOf(v, "\\")) : v \in {s}} : TRUE

-----------------------------------------------------------------------------
(* Node's path module (posix): dirname and relative *)

\* the working directory relative paths are resolved against
ProcessCwd == "/home/user"

\* the pieces of s between its "/" characters (empty pieces included);
\* k is the position of the first "/" of s, or 0
RECURSIVE Segments(_)
SplitAt(s, k) ==
  IF k = 0 THEN <<s>>
  ELSE <<SubSeq(s, 1, k - 1)>> \o Segments(SubSeq(s, k + 1, Len(s)))

\* (v is the value of s, evaluated once)
Segments(s) ==
  CHOOSE r \in {SplitAt(v, FirstIndexOf(v, "/")) : v \in {s}} : TRUE

RECURSIVE JoinWith(_, _)
JoinWith(segs, sep) ==
  IF segs = <<>> THEN ""
  ELSE IF Len(segs) = 1 THEN Head(segs)
  ELSE Head(segs) \o sep \o JoinWith(Tail(segs), sep)

\* one segment h pushed on the normalized path acc
PushSegment(acc, h) ==
  IF h = "" \/ h = "." THEN acc
  ELSE IF h = ".." THEN (IF acc = <<>> THEN acc ELSE SubSeq(acc, 1, Len(acc) - 1))
  ELSE Append(acc, h)

\* drop "" and ".", let ".." remove the segment before it
\* (v and a are the values of segs and acc, evaluated once)
RECURSIVE NormalizeSegments(_, _)
NormalizeSegments(segs, acc) ==
  CHOOSE r \in {IF v = <<>> THEN a
                 ELSE NormalizeSegments(Tail(v), PushSegment(a, Head(v)))
                 : v \in {segs}, a \in {acc}} : TRUE

\* path.resolve(p), as the normalized segments of the absolute path
path_resolve(p) ==
  NormalizeSegments(
    Segments(IF startsWith(p, "/") THEN p ELSE ProcessCwd \o "/" \o p), <<>>)

RECURSIVE CommonPrefixLen(_, _)
CommonPrefixLen(a, b) ==
  IF a = <<>> \/ b = <<>> \/ Head(a) # Head(b) THEN 0
  ELSE 1 + CommonPrefixLen(Tail(a), Tail(b))

\* from the resolved segments f to the resolved segments g, which share k segments
RelativeFrom(f, g, k) ==
  JoinWith([j \in 1..(Len(f) - k) |-> ".."] \o SubSeq(g, k + 1, Len(g)), "/")

RelativeSegments(f, g) == RelativeFrom(f, g, CommonPrefixLen(f, g))

\* path.relative(from, to): TypeError unless both are strings
path_relative(from, to) ==
  IF from.t # "string" \/ to.t # "string"
  THEN Throw("The \"path\" argument must be of type string")
  ELSE Return(JSStr(RelativeSegments(path_resolve(from.v), path_resolve(to.v))))

\* 0-based indices in 1..upto-1 of p that hold "/" (want) or another character
SlashIndices(p, upto, want) ==
  {k \in 1..(upto - 1) : (SubSeq(p, k + 1, k + 1) = "/") = want}

\* the largest element of S, or -1
LastOf(S) == IF S = {} THEN -1 ELSE SetMax(S)

\* path.dirname's backward scan from the last character down to index 1:
\* the (0-based) index of the first "/" met after a non-"/" character, or -1
DirnameEnd(p) == LastOf(SlashIndices(p, LastOf(SlashIndices(p, Len(p), FALSE)), TRUE))

DirnameSlice(p, hasRoot, end) ==
  IF end = -1 THEN (IF hasRoot THEN "/" ELSE ".")
  ELSE IF hasRoot /\ end = 1 THEN "//"
  ELSE SubSeq(p, 1, end)

\* path.dirname(p): TypeError unless p is a string
path_dirname(p) ==
  IF p.t # "string" THEN Throw("The \"path\" argument must be of type string")
  ELSE IF p.v = "" THEN Return(JSStr("."))
  ELSE Return(JSStr(DirnameSlice(p.v, startsWith(p.v, "/"), DirnameEnd(p.v))))

-----------------------------------------------------------------------------
(* git.ts: normalizeGitHubUrl and buildGitHubUrl *)

\* a variant that keeps the suffix
stripDotGit_keeps(s) == s

\* s without one trailing ".git"
stripDotGit(s) == IF endsWith(s, ".git") THEN sliceDropLast(s, 4) ELSE s

normalizeGitHubUrl(remoteUrl) ==
  IF startsWith(remoteUrl, "git@github.com:")
  THEN JSStr("https://github.com/"
             \o stripDotGit(sliceFrom(remoteUrl, Len("git@github.com:"))))
  ELSE IF includes(remoteUrl, "github.com")
  THEN JSStr(stripDotGit(remoteUrl))
  ELSE JSNull

\* a variant that writes the range anchor whenever an end line is given
AnchoredUrl_rangeWheneverEnd(repoInfo, relativePath, startLineNumber, endLineNumber) ==
  IF ~Falsy(endLineNumber)
  THEN repoInfo.remoteUrl \o "/blob/" \o repoInfo.branch \o "/" \o relativePath
         \o "#L" \o TemplateStr(startLineNumber) \o "-L" \o TemplateStr(endLineNumber)
  ELSE repoInfo.remoteUrl \o "/blob/" \o repoInfo.branch \o "/" \o relativePath
         \o "#L" \o TemplateStr(startLineNumber)

\* the two return statements of buildGitHubUrl
AnchoredUrl(repoInfo, relativePath, startLineNumber, endLineNumber) ==
  IF ~Falsy(endLineNumber) /\ endLineNumber # startLineNumber
  THEN repoInfo.remoteUrl \o "/blob/" \o repoInfo.branch \o "/" \o relativePath
         \o "#L" \o TemplateStr(startLineNumber) \o "-L" \o TemplateStr(endLineNumber)
  ELSE repoInfo.remoteUrl \o "/blob/" \o repoInfo.branch \o "/" \o relativePath
         \o "#L" \o TemplateStr(startLineNumber)

BuildFromRelative(rel, repoInfo, startLineNumber, endLineNumber) ==
  IF rel.kind = "throw" THEN rel
  ELSE Return(JSStr(AnchoredUrl(repoInfo, replaceBackslashes(rel.val.v),
                                startLineNumber, endLineNumber)))

\* the try block of buildGitHubUrl
buildGitHubUrlTry(repoInfo, filePath, startLineNumber, endLineNumber) ==
  IF repoInfo.t # "object"
  THEN Throw("Cannot read properties of " \o TemplateStr(repoInfo))
  ELSE BuildFromRelative(path_relative(JSStr(repoInfo.rootPath), filePath),
                         repoInfo, startLineNumber, endLineNumber)

\* a variant without the catch: the exception propagates
CatchReturnNull_rethrows(completion) == completion

\* the catch block of buildGitHubUrl
CatchReturnNull(completion) ==
  IF completion.kind = "throw" THEN Return(JSNull) ELSE completion

buildGitHubUrl(repoInfo, filePath, startLineNumber, endLineNumber) ==
  CatchReturnNull(buildGitHubUrlTry(repoInfo, filePath, startLineNumber, endLineNumber))

-----------------------------------------------------------------------------
(* Bounds and the inputs drawn from them *)

\* largest 0-based editor line; 1-based line numbers range over 1..MaxLine+1
MaxLine == 2

Invs == {"inv1", "inv2"}

\* editor.selection: start <= end, and an empty selection is a bare cursor
Selections ==
  {sel \in [startLine : 0..MaxLine, endLine : 0..MaxLine, isEmpty : BOOLEAN] :
     /\ sel.startLine <= sel.endLine
     /\ sel.isEmpty => sel.startLine = sel.endLine}

EditorFiles == {"/repo/src/file.ts", "/work/link/main.c"}

EditorStates ==
  {JSUndef} \cup {[t |-> "object", fsPath |-> f, selection |-> sel] :
                    f \in EditorFiles, sel \in Selections}

\* the git command lines of git.ts
CmdShowToplevel == "git rev-parse --show-toplevel"
CmdRemoteOriginUrl == "git config --get remote.origin.url"
CmdRevParseHead == "git rev-parse HEAD"
CmdSymbolicRef == "git symbolic-ref --short HEAD"
CmdAbbrevRef == "git rev-parse --abbrev-ref HEAD"

\* repository paths on github.com, and the four remote forms of each
RepoPaths == {"acme/widget", "o/r", "acme/dot.git"}

RemoteForms(P) ==
  { "git@github.com:" \o P \o ".git", "git@github.com:" \o P,
    "https://github.com/" \o P \o ".git", "https://github.com/" \o P }

\* remotes on a host other than github.com
ForeignRemotes ==
  { "https://gitlab.com/acme/widget.git", "git@gitlab.com:acme/widget.git",
    "https://mygithub.com/acme/widget.git" }

\* other values of remote.origin.url
OtherRemotes ==
  { "ssh://git@github.com/acme/widget.git", "https://github.com/acme/widget/", "" }

\* what each query may print (stdout as git writes it, newline included)
FullAnswers ==
  [ root |-> {"/repo\n", "/real/repo\n", "\n"},
    remote |-> {r \o "\n" : r \in (UNION {RemoteForms(P) : P \in RepoPaths})
                                    \cup ForeignRemotes \cup OtherRemotes},
    head |-> {"abcdef1234567890\n"},
    symbolic |-> {"main\n", "master\n"},
    abbrev |-> {"main\n", "feature\n", "HEAD\n"} ]

ExecError(msg) == [t |-> "error", message |-> msg]

\* cp.exec callbacks with an error: a non-zero exit with stderr, a spawn failure
ExecFailures ==
  { [error |-> ExecError("Command failed: git"), stdout |-> "",
     stderr |-> "fatal: not a git repository\n"],
    [error |-> ExecError("spawn /bin/sh ENOENT"), stdout |-> "", stderr |-> ""] }

ExecOutcomes(stdouts) ==
  ExecFailures \cup {[error |-> JSNull, stdout |-> out, stderr |-> ""] : out \in stdouts}

Pending == [kind |-> "pending"]

-----------------------------------------------------------------------------
(* git.ts: executeCommand and the three sub-steps *)

\* the promise of executeCommand, settled by the cp.exec callback
executeCommand(outcome) ==
  IF outcome.error.t # "null"
  THEN Throw("Command failed: " \o
             (IF trim(outcome.stderr) # "" THEN trim(outcome.stderr)
              ELSE outcome.error.message))
  ELSE Return(JSStr(trim(outcome.stdout)))

\* getGitRootPath, from the settled promise of its query
getGitRootPath(settled) == IF settled.kind = "throw" THEN JSNull ELSE settled.val

\* getRemoteUrl, from the settled promise of its query
getRemoteUrl(settled) ==
  IF settled.kind = "throw" THEN JSNull ELSE normalizeGitHubUrl(settled.val.v)

\* a variant whose outer catch is missing: the error reaches the caller
getRepoInfoFail_noCatch(message, hint) ==
  [ completion |-> Throw(message),
    logs |-> << "Failed to get git repository information: " \o message \o hint >> ]

\* getRepoInfo's failure path: the specific diagnostic, the throw, the outer catch
getRepoInfoFail(message, hint) ==
  [ completion |-> Return(JSNull),
    logs |-> << "Failed to get git repository information: " \o message \o hint,
                "Git error details: " \o message >> ]

getRepoInfoOk(remoteUrl, branch, rootPath) ==
  [ completion |-> Return(RepoInfo(remoteUrl.v, branch.v, rootPath.v)), logs |-> <<>> ]

-----------------------------------------------------------------------------
(* extension.ts: the command handler *)

\* the handler's and getRepoInfo's locals; repoInfo and githubUrl hold the
\* completions of getRepoInfo and buildGitHubUrl once they were called
IdleInvocation ==
  [ pc |-> "idle", editor |-> JSUndef, filePath |-> JSUndef, selection |-> JSUndef,
    startLine |-> JSUndef, endLine |-> JSUndef,
    rootPath |-> JSUndef, remoteUrl |-> JSUndef,
    repoInfo |-> NotCalled, githubUrl |-> NotCalled ]

\* what the host has seen of an invocation: the messages shown, the console,
\* the URLs openExternal accepted, the promise openExternal returned ("none"
\* while there is none), the descriptions of the exceptions raised in the
\* handler's steps, and whether one of them reached the host unhandled
QuietHost ==
  [ errorMessages |-> <<>>, consoleError |-> <<>>, consoleLog |-> <<>>,
    opened |-> <<>>, openPromise |-> "none", raised |-> <<>>, escaped |-> FALSE ]

\* how the two host calls of extension.ts 60 go: vscode.Uri.parse throws,
\* vscode.env.openExternal throws, or openExternal returns its promise
HostCalls ==
  { [failed |-> "Uri.parse", message |-> "[UriError]: Scheme contains illegal characters."],
    [failed |-> "openExternal", message |-> "Failed to open uri"],
    [failed |-> "none", message |-> ""] }

\* how the promise returned by openExternal settles
OpenPromiseOutcomes == {"resolved true", "resolved false", "rejected"}

\* the reason of a rejected openExternal promise
OpenRejection == "Unable to open the link"

\* a variant that shows nothing
NoActiveEditor_silent(h) == h

\* extension.ts 20-23: the handler without an active editor
NoActiveEditor(h) == [h EXCEPT !.errorMessages = Append(@, "No active editor found")]

\* a variant that reads the active editor again after the await
HandlerBuild_rereadsEditor(locals, settled) ==
  IF settled.kind = "throw" \/ Falsy(settled.val) THEN NotCalled
  ELSE IF Falsy(editor)
  THEN buildGitHubUrl(settled.val, locals.filePath, locals.startLine, JSUndef)
  ELSE buildGitHubUrl(settled.val, JSStr(editor.fsPath),
         JSNum(editor.selection.startLine + 1),
         IF ~editor.selection.isEmpty /\ editor.selection.startLine # editor.selection.endLine
         THEN JSNum(editor.selection.endLine + 1) ELSE JSUndef)

\* extension.ts 43-52: the call of buildGitHubUrl, made when repoInfo is present
HandlerBuild(locals, settled) ==
  IF settled.kind = "throw" \/ Falsy(settled.val) THEN NotCalled
  ELSE buildGitHubUrl(settled.val, locals.filePath, locals.startLine,
         IF ~locals.selection.isEmpty /\ locals.startLine # locals.endLine
         THEN locals.endLine ELSE JSUndef)

\* extension.ts 54-64: the build failure is reported, or the URL is parsed and
\* handed to openExternal, whose promise is dropped, and the opening logged; a
\* throw of either host call reaches the catch
AfterBuild(h, built, call) ==
  IF built.kind = "throw"
  THEN [h EXCEPT !.errorMessages = Append(@, "Error: " \o built.message)]
  ELSE IF Falsy(built.val)
  THEN [h EXCEPT !.errorMessages = Append(@, "Failed to build GitHub URL")]
  ELSE IF call.failed # "none"
  THEN [h EXCEPT !.errorMessages = Append(@, "Error: " \o call.message),
                 !.raised = Append(@, call.message)]
  ELSE [h EXCEPT !.opened = Append(@, built.val.v),
                 !.openPromise = "pending",
                 !.consoleLog = Append(@, "Opening " \o built.val.v)]

\* a variant that does not return after reporting the missing repository
\* information, and so goes on to a build that fails
HandlerReport_noReturn(h, settled, built, call) ==
  IF settled.kind = "return" /\ Falsy(settled.val)
  THEN [h EXCEPT
          !.errorMessages = @ \o << "Could not determine GitHub repository information",
                                    "Failed to build GitHub URL" >>]
  ELSE AfterBuild(h, built, call)

\* extension.ts 36-40, 54-64: what the handler reports once getRepoInfo has settled
HandlerReport(h, settled, built, call) ==
  IF settled.kind = "throw"
  THEN [h EXCEPT !.errorMessages = Append(@, "Error: " \o settled.message)]
  ELSE IF Falsy(settled.val)
  THEN [h EXCEPT
          !.errorMessages = Append(@, "Could not determine GitHub repository information"),
          !.consoleError = Append(@,
             "Failed to get GitHub repository information. Check the logs for more details.")]
  ELSE AfterBuild(h, built, call)

-----------------------------------------------------------------------------
(* The invocation as a state machine: one action per suspension point.     *)
(* What runs between two awaits runs without interleaving (promise         *)
(* continuations), so each action carries the callback of the query it     *)
(* settles up to the next cp.exec call or to the end of the handler.       *)

\* the query in flight receives its outcome; `next` holds the query issued next, if any
Settle(log, outcome, next) ==
  [log EXCEPT ![Len(log)].outcome = outcome] \o next

\* a variant that updates the repository before it asks
Query_fetchesFirst(command, cwd) ==
  <<[command |-> "git fetch origin && " \o command, cwd |-> cwd, outcome |-> Pending]>>

Query(command, cwd) == <<[command |-> command, cwd |-> cwd, outcome |-> Pending]>>

FinishWith(i, locals, r, built, call) ==
  /\ inv' = [inv EXCEPT ![i] = [locals EXCEPT !.pc = "done", !.repoInfo = r.completion,
                                              !.githubUrl = built]]
  /\ host' = [host EXCEPT ![i] =
                HandlerReport([host[i] EXCEPT !.consoleError = @ \o r.logs],
                              r.completion, built, call)]

\* getRepoInfo settles with `r` (its completion and what it logged); the handler
\* runs to its end
Finish(i, locals, r) ==
  \E call \in HostCalls, built \in {HandlerBuild(locals, r.completion)} :
    FinishWith(i, locals, r, built, call)

\* a variant that keeps the editor's 0-based line numbers
ReadEditor_zeroBased(locals, ed) ==
  [locals EXCEPT !.editor = ed,
                 !.filePath = JSStr(ed.fsPath),
                 !.selection = ed.selection,
                 !.startLine = JSNum(ed.selection.startLine),
                 !.endLine = JSNum(ed.selection.endLine)]

\* the locals the handler reads from the active editor (extension.ts 26-31)
ReadEditor(locals, ed) ==
  [locals EXCEPT !.editor = ed,
                 !.filePath = JSStr(ed.fsPath),
                 !.selection = ed.selection,
                 !.startLine = JSNum(ed.selection.startLine + 1),
                 !.endLine = JSNum(ed.selection.endLine + 1)]

\* getGitRootPath starts: the root query is issued in the file's directory
StartRootQuery(i, locals, cwd) ==
  IF cwd.kind = "throw"
  THEN /\ Finish(i, locals, getRepoInfoFail("Not a git repository", ""))
       /\ UNCHANGED git
  ELSE /\ inv' = [inv EXCEPT ![i] = [locals EXCEPT !.pc = "awaitRoot"]]
       /\ git' = [git EXCEPT ![i] = @ \o Query(CmdShowToplevel, cwd.val.v)]
       /\ UNCHANGED host

\* extension.ts 17-35, git.ts 11-13 and 53-56: the command starts
Invoke(i) ==
  /\ inv[i].pc = "idle"
  /\ UNCHANGED <<editor, bArgs, bRet>>
  /\ IF Falsy(editor)
     THEN /\ inv' = [inv EXCEPT ![i].pc = "done", ![i].editor = editor]
          /\ host' = [host EXCEPT ![i] = NoActiveEditor(host[i])]
          /\ UNCHANGED git
     ELSE StartRootQuery(i, ReadEditor(inv[i], editor),
                         path_dirname(JSStr(editor.fsPath)))

\* a variant that goes on to the remote query without a root
RootResolved_goesOn(i, outcome, rootPath) ==
  /\ inv' = [inv EXCEPT ![i].pc = "awaitRemote",
                        ![i].rootPath = IF Falsy(rootPath) THEN JSStr(".") ELSE rootPath]
  /\ git' = [git EXCEPT ![i] =
               Settle(@, outcome,
                      Query(CmdRemoteOriginUrl, IF Falsy(rootPath) THEN "." ELSE rootPath.v))]
  /\ UNCHANGED host

\* git.ts 14-20: getRepoInfo receives the root
RootResolved(i, outcome, rootPath) ==
  IF Falsy(rootPath)
  THEN /\ Finish(i, inv[i], getRepoInfoFail("Not a git repository", ""))
       /\ git' = [git EXCEPT ![i] = Settle(@, outcome, <<>>)]
  ELSE /\ inv' = [inv EXCEPT ![i].pc = "awaitRemote", ![i].rootPath = rootPath]
       /\ git' = [git EXCEPT ![i] =
                    Settle(@, outcome, Query(CmdRemoteOriginUrl, rootPath.v))]
       /\ UNCHANGED host

\* git.ts 56-60, 14-20, 63-66: the root query settles
ReturnRoot(i, answers) ==
  /\ inv[i].pc = "awaitRoot"
  /\ UNCHANGED <<editor, bArgs, bRet>>
  /\ \E outcome \in ExecOutcomes(answers.root) :
       RootResolved(i, outcome, getGitRootPath(executeCommand(outcome)))

\* a variant that asks for the remote again when it got none
RemoteResolved_retries(i, outcome, remoteUrl) ==
  IF Falsy(remoteUrl) /\ Len(git[i]) < 4
  THEN /\ git' = [git EXCEPT ![i] =
                    Settle(@, outcome, Query(CmdRemoteOriginUrl, inv[i].rootPath.v))]
       /\ UNCHANGED <<inv, host>>
  ELSE IF Falsy(remoteUrl)
  THEN /\ Finish(i, inv[i],
                 getRepoInfoFail("No GitHub remote found", ", check remote configuration"))
       /\ git' = [git EXCEPT ![i] = Settle(@, outcome, <<>>)]
  ELSE /\ inv' = [inv EXCEPT ![i].pc = "awaitHasCommits", ![i].remoteUrl = remoteUrl]
       /\ git' = [git EXCEPT ![i] =
                    Settle(@, outcome, Query(CmdRevParseHead, inv[i].rootPath.v))]
       /\ UNCHANGED host

\* git.ts 21-27: getRepoInfo receives the remote
RemoteResolved(i, outcome, remoteUrl) ==
  IF Falsy(remoteUrl)
  THEN /\ Finish(i, inv[i],
                 getRepoInfoFail("No GitHub remote found", ", check remote configuration"))
       /\ git' = [git EXCEPT ![i] = Settle(@, outcome, <<>>)]
  ELSE /\ inv' = [inv EXCEPT ![i].pc = "awaitHasCommits", ![i].remoteUrl = remoteUrl]
       /\ git' = [git EXCEPT ![i] =
                    Settle(@, outcome, Query(CmdRevParseHead, inv[i].rootPath.v))]
       /\ UNCHANGED host

\* git.ts 66-70, 21-27, 73-78: the remote query settles
ReturnRemote(i, answers) ==
  /\ inv[i].pc = "awaitRemote"
  /\ UNCHANGED <<editor, bArgs, bRet>>
  /\ \E outcome \in ExecOutcomes(answers.remote) :
       RemoteResolved(i, outcome, getRemoteUrl(executeCommand(outcome)))

\* git.ts 27-34: getRepoInfo receives getCurrentBranch's value
getRepoInfoBranch(locals, branch) ==
  IF Falsy(branch)
  THEN getRepoInfoFail("Could not determine current branch or commit", "")
  ELSE getRepoInfoOk(locals.remoteUrl, branch, locals.rootPath)

BranchResolved(i, outcome, branch) ==
  /\ Finish(i, inv[i], getRepoInfoBranch(inv[i], branch))
  /\ git' = [git EXCEPT ![i] = Settle(@, outcome, <<>>)]

\* the branch query `command` is issued next
NextBranchQuery(i, outcome, pc, command) ==
  /\ inv' = [inv EXCEPT ![i].pc = pc]
  /\ git' = [git EXCEPT ![i] = Settle(@, outcome, Query(command, inv[i].rootPath.v))]
  /\ UNCHANGED host

\* git.ts 76-82, 91: the has-commits probe settles
ReturnHasCommits(i, answers) ==
  /\ inv[i].pc = "awaitHasCommits"
  /\ UNCHANGED <<editor, bArgs, bRet>>
  /\ \E outcome \in ExecOutcomes(answers.head) :
       IF executeCommand(outcome).kind = "throw"
       THEN NextBranchQuery(i, outcome, "awaitSymbolicRef", CmdSymbolicRef)
       ELSE NextBranchQuery(i, outcome, "awaitAbbrevRef", CmdAbbrevRef)

\* a variant that gives up when the symbolic ref is unavailable
symbolicRefBranch_noDefault(settled) ==
  IF settled.kind = "throw" THEN JSNull ELSE settled.val

\* git.ts 82-87: the symbolic ref, or the default branch
symbolicRefBranch(settled) ==
  IF settled.kind = "throw" THEN JSStr("main") ELSE settled.val

\* git.ts 82-87: the symbolic-ref query settles (repository without commits)
ReturnSymbolicRef(i, answers) ==
  /\ inv[i].pc = "awaitSymbolicRef"
  /\ UNCHANGED <<editor, bArgs, bRet>>
  /\ \E outcome \in ExecOutcomes(answers.symbolic) :
       BranchResolved(i, outcome, symbolicRefBranch(executeCommand(outcome)))

\* a variant without the detached-HEAD case
AbbrevRefSettled_noDetached(i, outcome, settled) ==
  BranchResolved(i, outcome, IF settled.kind = "throw" THEN JSNull ELSE settled.val)

\* git.ts 91-103: the abbreviated ref reaches getCurrentBranch
AbbrevRefSettled(i, outcome, settled) ==
  IF settled.kind = "return" /\ settled.val = JSStr("HEAD")
  THEN NextBranchQuery(i, outcome, "awaitCommitHash", CmdRevParseHead)
  ELSE BranchResolved(i, outcome, IF settled.kind = "throw" THEN JSNull ELSE settled.val)

\* git.ts 91-103: the abbreviated-ref query settles
ReturnAbbrevRef(i, answers) ==
  /\ inv[i].pc = "awaitAbbrevRef"
  /\ UNCHANGED <<editor, bArgs, bRet>>
  /\ \E outcome \in ExecOutcomes(answers.abbrev) :
       AbbrevRefSettled(i, outcome, executeCommand(outcome))

\* a variant that falls back to the default branch
commitHashBranch_guesses(settled) ==
  IF settled.kind = "throw" THEN JSStr("main") ELSE settled.val

\* git.ts 96-97, 101-103: the commit hash, or the catch
commitHashBranch(settled) ==
  IF settled.kind = "throw" THEN JSNull ELSE settled.val

\* git.ts 96-103: the commit-hash query of a detached HEAD settles
ReturnCommitHash(i, answers) ==
  /\ inv[i].pc = "awaitCommitHash"
  /\ UNCHANGED <<editor, bArgs, bRet>>
  /\ \E outcome \in ExecOutcomes(answers.head) :
       BranchResolved(i, outcome, commitHashBranch(executeCommand(outcome)))

\* extension.ts 60: the promise of openExternal settles after the handler has
\* returned; nothing awaits it and nothing handles its rejection
OpenExternalSettles(i) ==
  /\ host[i].openPromise = "pending"
  /\ UNCHANGED <<editor, inv, git, bArgs, bRet>>
  /\ \E outcome \in OpenPromiseOutcomes :
       host' = [host EXCEPT ![i].openPromise = outcome,
                            ![i].raised = IF outcome = "rejected"
                                          THEN Append(@, OpenRejection) ELSE @,
                            ![i].escaped = (outcome = "rejected")]

Init ==
  /\ editor \in EditorStates
  /\ inv = [i \in Invs |-> IF i = "inv1" THEN IdleInvocation
                           ELSE [IdleInvocation EXCEPT !.pc = "off"]]
  /\ git = [i \in Invs |-> <<>>]
  /\ host = [i \in Invs |-> QuietHost]
  /\ bArgs = JSUndef
  /\ bRet = NotCalled

Next ==
  \E i \in Invs :
    \/ Invoke(i)
    \/ ReturnRoot(i, FullAnswers)
    \/ ReturnRemote(i, FullAnswers)
    \/ ReturnHasCommits(i, FullAnswers)
    \/ ReturnSymbolicRef(i, FullAnswers)
    \/ ReturnAbbrevRef(i, FullAnswers)
    \/ ReturnCommitHash(i, FullAnswers)
    \/ OpenExternalSettles(i)

Spec == Init /\ [][Next]_vars

-----------------------------------------------------------------------------
(* The command when every git query that is issued returns *)

\* a smaller choice of editors and answers
FewEditors ==
  { JSUndef,
    [t |-> "object", fsPath |-> "/repo/src/file.ts",
     selection |-> [startLine |-> 1, endLine |-> 2, isEmpty |-> FALSE]],
    [t |-> "object", fsPath |-> "/work/link/main.c",
     selection |-> [startLine |-> 0, endLine |-> 0, isEmpty |-> TRUE]] }

FewAnswers ==
  [ root |-> {"/repo\n"},
    remote |-> {"git@github.com:acme/widget.git\n", "https://gitlab.com/acme/widget.git\n"},
    head |-> {"abcdef1234567890\n"},
    symbolic |-> {"main\n"},
    abbrev |-> {"feature\n", "HEAD\n"} ]

InitLive ==
  /\ editor \in FewEditors
  /\ inv = [i \in Invs |-> IF i = "inv1" THEN IdleInvocation
                           ELSE [IdleInvocation EXCEPT !.pc = "off"]]
  /\ git = [i \in Invs |-> <<>>]
  /\ host = [i \in Invs |-> QuietHost]
  /\ bArgs = JSUndef
  /\ bRet = NotCalled

\* the callback of the query invocation i waits on is called
GitReturns(i) ==
  \/ ReturnRoot(i, FewAnswers)
  \/ ReturnRemote(i, FewAnswers)
  \/ ReturnHasCommits(i, FewAnswers)
  \/ ReturnSymbolicRef(i, FewAnswers)
  \/ ReturnAbbrevRef(i, FewAnswers)
  \/ ReturnCommitHash(i, FewAnswers)

NextLive ==
  \E i \in Invs :
    \/ Invoke(i)
    \/ GitReturns(i)
    \/ OpenExternalSettles(i)

\* cp.exec calls its callback once the child process has ended: a query that
\* is in flight returns
SpecLive == InitLive /\ [][NextLive]_vars /\ \A i \in Invs : WF_vars(GitReturns(i))

-----------------------------------------------------------------------------
(* Two invocations of the command at once, the editor changing meanwhile *)

\* the user moves to another editor or selection, or closes the editor
ChangeEditor ==
  /\ \E ed \in FewEditors : ed # editor /\ editor' = ed
  /\ UNCHANGED <<inv, git, host, bArgs, bRet>>

InitConc ==
  /\ editor \in FewEditors
  /\ inv = [i \in Invs |-> IdleInvocation]
  /\ git = [i \in Invs |-> <<>>]
  /\ host = [i \in Invs |-> QuietHost]
  /\ bArgs = JSUndef
  /\ bRet = NotCalled

NextConc ==
  \/ ChangeEditor
  \/ \E i \in Invs :
       \/ Invoke(i)
       \/ ReturnRoot(i, FewAnswers)
       \/ ReturnRemote(i, FewAnswers)
       \/ ReturnHasCommits(i, FewAnswers)
       \/ ReturnSymbolicRef(i, FewAnswers)
       \/ ReturnAbbrevRef(i, FewAnswers)
       \/ ReturnCommitHash(i, FewAnswers)
       \/ OpenExternalSettles(i)

SpecConc == InitConc /\ [][NextConc]_vars

-----------------------------------------------------------------------------
(* Direct calls of the exported buildGitHubUrl *)

BuildRoots == {"/repo", "/", "/home/u/my repo"}

RelativeParts == { <<"src", "file.ts">>, <<"a.ts">>, <<"docs", "api", "read me.md">> }

Separators == {"/", "\\"}

\* the file below `root` whose path relative to it has the segments `segs`
FileUnder(root, segs, sep) ==
  (IF root = "/" THEN "" ELSE root) \o "/" \o JoinWith(segs, sep)

BuildFilePaths ==
  {JSStr(FileUnder(root, segs, sep)) :
     root \in BuildRoots, segs \in RelativeParts, sep \in Separators}
  \cup {JSStr("/repo2/a.ts"), JSStr("/elsewhere/x.ts"), JSNull, JSUndef}

BuildRepoInfos ==
  {RepoInfo("https://github.com/acme/widget", branch, root) :
     branch \in {"main", "abcdef1234567890"}, root \in BuildRoots}
  \cup {JSNull}

LineNumbers == {JSNum(n) : n \in 1..(MaxLine + 1)}

InitBuild ==
  /\ editor = JSUndef
  /\ inv = [i \in Invs |-> [IdleInvocation EXCEPT !.pc = "off"]]
  /\ git = [i \in Invs |-> <<>>]
  /\ host = [i \in Invs |-> QuietHost]
  /\ bArgs \in [repoInfo : BuildRepoInfos, filePath : BuildFilePaths,
                startLineNumber : LineNumbers,
                endLineNumber : LineNumbers \cup {JSUndef}]
  /\ bRet = NotCalled

CallBuildGitHubUrl ==
  /\ bRet = NotCalled
  /\ bRet' = buildGitHubUrl(bArgs.repoInfo, bArgs.filePath,
                            bArgs.startLineNumber, bArgs.endLineNumber)
  /\ UNCHANGED <<editor, inv, git, host, bArgs>>

NextBuild == CallBuildGitHubUrl

SpecBuild == InitBuild /\ [][NextBuild]_vars

-----------------------------------------------------------------------------
(* What the queries of an invocation show *)

Answered(q) == q.outcome # Pending

Succeeded(q) == Answered(q) /\ q.outcome.error = JSNull

Failed(q) == Answered(q) /\ q.outcome.error # JSNull

\* git printed `text` (and the newline that ends its output)
Printed(q, text) == Succeeded(q) /\ q.outcome.stdout = text \o "\n"

Issued(i, command) == \E k \in DOMAIN git[i] : git[i][k].command = command

LastQuery(i) == git[i][Len(git[i])]

\* getRepoInfo has returned a RepoInfo / has returned null
ReturnedRepoInfo(i) ==
  inv[i].repoInfo.kind = "return" /\ inv[i].repoInfo.val.t = "object"

ReturnedNull(i) == inv[i].repoInfo = Return(JSNull)

-----------------------------------------------------------------------------
(* C1 *)

ExpectedAnchor(start, end) ==
  IF end # JSUndef /\ end.v # start.v
  THEN "#L" \o ToString(start.v) \o "-L" \o ToString(end.v)
  ELSE "#L" \o ToString(start.v)

\* C1: for a file below rootPath, whose relative path has the segments segs,
\* buildGitHubUrl returns <remoteUrl>/blob/<branch>/<segs joined by "/"><anchor>;
\* the anchor is #L<start>-L<end> when an end line is given and differs from
\* start, and #L<start> when it is omitted or equal to start.
C1_UrlFormat ==
  bRet # NotCalled =>
    \A root \in BuildRoots, segs \in RelativeParts, sep \in Separators :
      ( /\ bArgs.repoInfo.t = "object"
        /\ bArgs.repoInfo.rootPath = root
        /\ bArgs.filePath = JSStr(FileUnder(root, segs, sep)) )
      => bRet = Return(JSStr(
                  bArgs.repoInfo.remoteUrl \o "/blob/" \o bArgs.repoInfo.branch \o "/"
                    \o JoinWith(segs, "/")
                    \o ExpectedAnchor(bArgs.startLineNumber, bArgs.endLineNumber)))

\* a range URL and a URL whose end line equals its start line were both built
C1_Witness ==
  /\ bArgs.filePath = JSStr("/home/u/my repo/docs\\api\\read me.md")
  /\ bArgs.endLineNumber = JSNum(2)
  /\ bRet = Return(JSStr(
       "https://github.com/acme/widget/blob/main/docs/api/read me.md#L2"))

-----------------------------------------------------------------------------
(* C2 *)

\* the remote query of invocation i printed `remote`, and getRepoInfo holds `url`
NormalizedTo(i, remote, url) ==
  ( /\ Len(git[i]) >= 2
    /\ git[i][2].command = CmdRemoteOriginUrl
    /\ Printed(git[i][2], remote) )
  => /\ inv[i].remoteUrl = JSStr(url)
     /\ ReturnedRepoInfo(i) => inv[i].repoInfo.val.remoteUrl = url

\* C2 as stated: for every repository path P, each of the four remote forms of
\* P gives the remoteUrl https://github.com/<P>.
C2_AllPaths ==
  \A i \in Invs : \A P \in RepoPaths : \A remote \in RemoteForms(P) :
    NormalizedTo(i, remote, "https://github.com/" \o P)

\* C2 amended: the same, for every repository path P that does not itself end
\* in ".git".
C2_PathsNotEndingInDotGit ==
  \A i \in Invs : \A P \in {Q \in RepoPaths : ~endsWith(Q, ".git")} :
    \A remote \in RemoteForms(P) :
      NormalizedTo(i, remote, "https://github.com/" \o P)

C2_Witness ==
  \E i \in Invs :
    /\ ReturnedRepoInfo(i)
    /\ Printed(git[i][2], "https://github.com/o/r.git")
    /\ inv[i].repoInfo.val.remoteUrl = "https://github.com/o/r"

-----------------------------------------------------------------------------
(* C3 *)

\* the origin remote is missing, or on a host other than github.com
NoGitHubRemote(q) ==
  \/ Failed(q)
  \/ \E remote \in ForeignRemotes : Printed(q, remote)

\* C3: when the origin remote is missing or its host is not github.com,
\* getRepoInfo returns null and no branch query is issued.
C3_ForeignRemoteIsNull ==
  \A i \in Invs :
    ( /\ Len(git[i]) >= 2
      /\ git[i][2].command = CmdRemoteOriginUrl
      /\ NoGitHubRemote(git[i][2]) )
    => /\ ReturnedNull(i)
       /\ Len(git[i]) = 2

-----------------------------------------------------------------------------
(* C4 *)

\* C4: the remoteUrl of every returned RepoInfo starts with https://github.com/
\* and ends neither with ".git" nor with a slash.
C4_CanonicalRemoteUrl ==
  \A i \in Invs :
    ReturnedRepoInfo(i) =>
      /\ startsWith(inv[i].repoInfo.val.remoteUrl, "https://github.com/")
      /\ ~endsWith(inv[i].repoInfo.val.remoteUrl, ".git")
      /\ ~endsWith(inv[i].repoInfo.val.remoteUrl, "/")

-----------------------------------------------------------------------------
(* C5 *)

\* the abbreviated-ref query printed the literal HEAD
DetachedHead(i) ==
  \E k \in DOMAIN git[i] : git[i][k].command = CmdAbbrevRef /\ Printed(git[i][k], "HEAD")

\* C5: with a detached HEAD, the branch of the returned RepoInfo is what the
\* commit-hash query (git rev-parse HEAD, issued after the abbreviated-ref
\* query) printed, and is not the literal HEAD.
C5_DetachedHeadUsesCommitHash ==
  \A i \in Invs :
    (ReturnedRepoInfo(i) /\ DetachedHead(i)) =>
      /\ LastQuery(i).command = CmdRevParseHead
      /\ Len(git[i]) = 5
      /\ Printed(LastQuery(i), inv[i].repoInfo.val.branch)
      /\ inv[i].repoInfo.val.branch # "HEAD"

C5_Witness ==
  \E i \in Invs :
    /\ ReturnedRepoInfo(i)
    /\ DetachedHead(i)
    /\ inv[i].repoInfo.val.branch = "abcdef1234567890"

-----------------------------------------------------------------------------
(* C6 *)

\* the has-commits probe (the first git rev-parse HEAD) failed
NoCommits(i) ==
  /\ Len(git[i]) >= 3
  /\ git[i][3].command = CmdRevParseHead
  /\ Failed(git[i][3])

\* C6: in a repository without commits the abbreviated-ref query is not
\* issued, and getRepoInfo returns a RepoInfo whose branch is what
\* git symbolic-ref --short HEAD printed, or "main" when that query failed.
C6_NoCommitsBranch ==
  \A i \in Invs :
    NoCommits(i) =>
      /\ ~Issued(i, CmdAbbrevRef)
      /\ Len(git[i]) = 4 /\ LastQuery(i).command = CmdSymbolicRef
      /\ inv[i].pc = "done" =>
           /\ ReturnedRepoInfo(i)
           /\ IF Succeeded(LastQuery(i))
              THEN Printed(LastQuery(i), inv[i].repoInfo.val.branch)
              ELSE inv[i].repoInfo.val.branch = "main"

C6_Witness ==
  \E i \in Invs :
    /\ NoCommits(i)
    /\ inv[i].pc = "done"
    /\ Failed(LastQuery(i))
    /\ ReturnedRepoInfo(i)
    /\ inv[i].repoInfo.val.branch = "main"

-----------------------------------------------------------------------------
(* C7 *)

\* the cause getRepoInfo names for a failure at the stage of `command`
CauseAt(command) ==
  IF command = CmdShowToplevel THEN "Not a git repository"
  ELSE IF command = CmdRemoteOriginUrl THEN "No GitHub remote found"
  ELSE "Could not determine current branch or commit"

Logged(i, line) == \E k \in DOMAIN host[i].consoleError : host[i].consoleError[k] = line

\* a query whose failure fails its stage: the root query, the remote query, the
\* abbreviated-ref query, the commit-hash query of a detached HEAD
StageFailed(i) ==
  \E k \in DOMAIN git[i] :
    /\ Failed(git[i][k])
    /\ \/ git[i][k].command \in {CmdShowToplevel, CmdRemoteOriginUrl, CmdAbbrevRef}
       \/ git[i][k].command = CmdRevParseHead /\ k > 3

\* C7: getRepoInfo never throws; it returns either a RepoInfo whose three
\* fields are non-empty, or null after logging a diagnostic that names the
\* cause; it returns null when root, remote or branch resolution failed.
C7_AllOrNothing ==
  \A i \in Invs :
    /\ inv[i].repoInfo # NotCalled =>
         /\ inv[i].repoInfo.kind = "return"
         /\ \/ /\ ReturnedRepoInfo(i)
               /\ inv[i].repoInfo.val.remoteUrl # ""
               /\ inv[i].repoInfo.val.branch # ""
               /\ inv[i].repoInfo.val.rootPath # ""
               /\ ~StageFailed(i)
            \/ /\ ReturnedNull(i)
               /\ Logged(i, "Git error details: " \o CauseAt(LastQuery(i).command))
    /\ (StageFailed(i) \/ (git[i] # <<>> /\ Printed(git[i][1], ""))) => ReturnedNull(i)

C7_Witness ==
  \E i \in Invs :
    /\ ReturnedNull(i)
    /\ LastQuery(i).command = CmdRevParseHead
    /\ Len(git[i]) = 5
    /\ Logged(i, "Git error details: Could not determine current branch or commit")

-----------------------------------------------------------------------------
(* C8 *)

\* the file lies in the tree rooted at root
InTree(file, root) == root = "/" \/ file = root \/ startsWith(file, root \o "/")

\* C8: buildGitHubUrl returns null for a file outside the tree rooted at
\* rootPath, and never returns a URL with a ".." path segment.
C8_OutsideTreeIsNull ==
  ( /\ bRet # NotCalled
    /\ bArgs.repoInfo.t = "object"
    /\ bArgs.filePath.t = "string" )
  => /\ bRet.kind = "return"
     /\ ~InTree(bArgs.filePath.v, bArgs.repoInfo.rootPath) => bRet.val = JSNull
     /\ bRet.val.t = "string" => ~includes(bRet.val.v, "/../")

-----------------------------------------------------------------------------
(* C9 *)

\* C9: buildGitHubUrl never throws; for a file path that is not a string (null,
\* undefined) it returns null, whatever the RepoInfo and the line numbers.
C9_NeverThrows ==
  bRet # NotCalled =>
    /\ bRet.kind = "return"
    /\ bArgs.filePath.t # "string" => bRet = Return(JSNull)

C9_Witness ==
  /\ bArgs.filePath = JSNull
  /\ bArgs.repoInfo.t = "object"
  /\ bRet = Return(JSNull)

-----------------------------------------------------------------------------
(* C10 *)

Started(i) == inv[i].pc \notin {"off", "idle"}

\* C10: an invocation that finds no active editor shows the one error
\* 'No active editor found' and does nothing else: no git query, no call of
\* getRepoInfo or buildGitHubUrl, no URL opened, nothing logged, no exception.
C10_NoActiveEditor ==
  \A i \in Invs :
    (Started(i) /\ Falsy(inv[i].editor)) =>
      /\ inv[i].pc = "done"
      /\ host[i].errorMessages = <<"No active editor found">>
      /\ git[i] = <<>>
      /\ inv[i].repoInfo = NotCalled
      /\ inv[i].githubUrl = NotCalled
      /\ host[i].opened = <<>>
      /\ host[i].consoleError = <<>> /\ host[i].consoleLog = <<>>
      /\ ~host[i].escaped

C10_Witness ==
  \E i \in Invs :
    /\ inv[i].pc = "done"
    /\ Falsy(inv[i].editor)
    /\ host[i].errorMessages = <<"No active editor found">>

-----------------------------------------------------------------------------
(* C11 *)

\* the handler of invocation i has returned
Completed(i) == inv[i].pc = "done"

\* the anchor of a selection with the 0-based lines s..e
SelectionAnchor(sel) ==
  IF ~sel.isEmpty /\ sel.startLine # sel.endLine
  THEN "#L" \o ToString(sel.startLine + 1) \o "-L" \o ToString(sel.endLine + 1)
  ELSE "#L" \o ToString(sel.startLine + 1)

\* C11: the URL the command opens ends with the range anchor #L(s+1)-L(e+1)
\* exactly when the selection it read is non-empty and s differs from e, and
\* with the single-line anchor #L(s+1) in every other case (a cursor, or a
\* selection within one line); s and e are the selection's 0-based lines.
C11_SelectionAnchor ==
  \A i \in Invs :
    (Completed(i) /\ host[i].opened # <<>>) =>
      /\ ReturnedRepoInfo(i)
      /\ endsWith(host[i].opened[1], SelectionAnchor(inv[i].editor.selection))
      /\ ~includes(host[i].opened[1],
                   SelectionAnchor(inv[i].editor.selection) \o "-L")

\* a selection over the 0-based lines 1..2 opened the URL with #L2-L3
C11_Witness ==
  \E i \in Invs :
    /\ Completed(i)
    /\ ~Falsy(inv[i].editor)
    /\ inv[i].editor.selection = [startLine |-> 1, endLine |-> 2, isEmpty |-> FALSE]
    /\ host[i].opened = <<"https://github.com/acme/widget/blob/feature/src/file.ts#L2-L3">>

-----------------------------------------------------------------------------
(* C12 *)

\* C12: no exception escapes the handler to the host: a failure raised at any
\* step of an invocation (the URL parse, the open-externally request failing
\* synchronously or asynchronously) is caught and shown as exactly one error
\* message that contains the exception's description.
C12_NoExceptionEscapes ==
  \A i \in Invs :
    /\ ~host[i].escaped
    /\ host[i].raised # <<>> =>
         /\ Len(host[i].errorMessages) = 1
         /\ includes(host[i].errorMessages[1], host[i].raised[1])

-----------------------------------------------------------------------------
(* C13 *)

\* the URL was handed to openExternal once and logged, and no error was shown
OpenedOnce(i) ==
  /\ Len(host[i].opened) = 1
  /\ host[i].consoleLog = << "Opening " \o host[i].opened[1] >>
  /\ host[i].errorMessages = <<>>
  /\ ReturnedRepoInfo(i)
  /\ inv[i].githubUrl = Return(JSStr(host[i].opened[1]))

\* one error was shown and no URL was opened
OneError(i) ==
  /\ Len(host[i].errorMessages) = 1
  /\ host[i].opened = <<>>
  /\ host[i].consoleLog = <<>>

\* C13: a completed invocation has exactly one terminal outcome: the URL was
\* handed to openExternal exactly once and logged, which requires a RepoInfo
\* from getRepoInfo and a URL from buildGitHubUrl, or exactly one error was
\* shown and no URL was opened; never both. Without a RepoInfo,
\* buildGitHubUrl is not called.
C13_OneTerminalOutcome ==
  \A i \in Invs :
    Completed(i) =>
      /\ OpenedOnce(i) \/ OneError(i)
      /\ ~(OpenedOnce(i) /\ OneError(i))
      /\ ~ReturnedRepoInfo(i) => inv[i].githubUrl = NotCalled

\* both outcomes are seen: here the repository was resolved and the URL opened
C13_Witness ==
  \E i \in Invs :
    /\ Completed(i)
    /\ OpenedOnce(i)
    /\ host[i].openPromise = "resolved true"

-----------------------------------------------------------------------------
(* C14 *)

\* a branch query of invocation i failed: the has-commits probe, the
\* abbreviated-ref query, or the commit-hash query of a detached HEAD
BranchQueryFailed(i) ==
  \E k \in DOMAIN git[i] :
    /\ k >= 3
    /\ git[i][k].command \in {CmdRevParseHead, CmdAbbrevRef}
    /\ Failed(git[i][k])

\* C14 as stated: whenever a git query of branch resolution fails (git
\* rev-parse HEAD, git rev-parse --abbrev-ref HEAD, the commit-hash query),
\* getRepoInfo returns null, not a RepoInfo.
C14_AnyBranchFailureIsNull ==
  \A i \in Invs :
    (Completed(i) /\ BranchQueryFailed(i)) => ReturnedNull(i)

\* What holds of C14: whenever the abbreviated-ref query or the commit-hash
\* query of a detached HEAD fails, getRepoInfo returns null; a failure of the
\* first git rev-parse HEAD (the has-commits probe), whatever its reason, does
\* not fail branch resolution: the branch is then the symbolic ref, or main.
C14_LaterBranchFailureIsNull ==
  \A i \in Invs :
    Completed(i) =>
      /\ (\E k \in DOMAIN git[i] :
            /\ k >= 4
            /\ git[i][k].command \in {CmdRevParseHead, CmdAbbrevRef}
            /\ Failed(git[i][k])) => ReturnedNull(i)
      /\ NoCommits(i) =>
           /\ ReturnedRepoInfo(i)
           /\ inv[i].repoInfo.val.branch \in {"main", "master"}

\* the commit-hash query of a detached HEAD failed, and getRepoInfo returned null
C14_Witness ==
  \E i \in Invs :
    /\ Completed(i)
    /\ Len(git[i]) = 5
    /\ git[i][4].command = CmdAbbrevRef /\ Printed(git[i][4], "HEAD")
    /\ Failed(git[i][5])
    /\ ReturnedNull(i)
    /\ host[i].errorMessages = <<"Could not determine GitHub repository information">>

-----------------------------------------------------------------------------
(* C15 *)

BranchCommands == {CmdRevParseHead, CmdSymbolicRef, CmdAbbrevRef}

\* the invocation waits on a query
Awaiting(i) == inv[i].pc \notin {"off", "idle", "done"}

\* C15: the queries of an invocation are issued one at a time, in the order
\* root, remote, branch: only the last query issued can be in flight, and
\* one is in flight exactly while the invocation waits; the remote query is
\* issued only after the root query printed a non-empty root, and runs in
\* that root; the branch queries are issued only after the remote query
\* succeeded and its output normalized to a URL (one that contains
\* github.com), and run in the root; no query follows a failed root or
\* remote query.
C15_OneQueryAtATimeInOrder ==
  \A i \in Invs :
    /\ \A k \in DOMAIN git[i] : k < Len(git[i]) => Answered(git[i][k])
    /\ Awaiting(i) <=> (git[i] # <<>> /\ ~Answered(LastQuery(i)))
    /\ Len(git[i]) >= 1 => git[i][1].command = CmdShowToplevel
    /\ Len(git[i]) >= 2 =>
         /\ git[i][2].command = CmdRemoteOriginUrl
         /\ git[i][2].cwd # ""
         /\ Printed(git[i][1], git[i][2].cwd)
    /\ Len(git[i]) >= 3 =>
         /\ Succeeded(git[i][2])
         /\ inv[i].remoteUrl.t = "string"
         /\ includes(inv[i].remoteUrl.v, "github.com")
         /\ \A k \in 3..Len(git[i]) :
              /\ git[i][k].command \in BranchCommands
              /\ git[i][k].cwd = git[i][2].cwd
    /\ (git[i] # <<>> /\ Failed(git[i][1])) => Len(git[i]) = 1
    /\ (Len(git[i]) >= 2 /\ Failed(git[i][2])) => Len(git[i]) = 2

\* all three stages ran, each query after the one before it had returned
C15_Witness ==
  \E i \in Invs :
    /\ Completed(i)
    /\ Len(git[i]) = 5
    /\ \A k \in 1..5 : Succeeded(git[i][k])
    /\ git[i][5].cwd = "/real/repo"

-----------------------------------------------------------------------------
(* C16 *)

\* the four queries the specification names: repository root, origin remote,
\* abbreviated current ref, full current commit hash
FourQueries == {CmdShowToplevel, CmdRemoteOriginUrl, CmdAbbrevRef, CmdRevParseHead}

\* C16 as stated: every external command of an invocation is one of the four
\* read-only queries root path, origin remote URL, abbreviated ref name, full
\* commit hash.
C16_OnlyFourQueries ==
  \A i \in Invs : \A k \in DOMAIN git[i] : git[i][k].command \in FourQueries

\* C16 amended: every external command of an invocation is one of five
\* read-only queries: the four above and git symbolic-ref --short HEAD, which
\* is issued only after the first git rev-parse HEAD failed.
C16_OnlyFiveQueries ==
  \A i \in Invs : \A k \in DOMAIN git[i] :
    /\ git[i][k].command \in FourQueries \cup {CmdSymbolicRef}
    /\ git[i][k].command = CmdSymbolicRef =>
         (k = 4 /\ git[i][3].command = CmdRevParseHead /\ Failed(git[i][3]))

\* an invocation that ran the symbolic-ref query and opened a URL
C16_Witness ==
  \E i \in Invs :
    /\ Completed(i)
    /\ Issued(i, CmdSymbolicRef)
    /\ Printed(LastQuery(i), "master")
    /\ host[i].opened # <<>>

-----------------------------------------------------------------------------
(* C17 *)

\* the invocation has its outcome: the URL opened, or an error shown
Terminal(i) ==
  Completed(i) /\ (host[i].opened # <<>> \/ host[i].errorMessages # <<>>)

\* a command that failed is not issued again
NoReissue(i) ==
  \A k, l \in DOMAIN git[i] :
    (k < l /\ Failed(git[i][k])) => git[i][l].command # git[i][k].command

\* an invocation that waits has neither opened a URL nor shown an error
SilentWhileBlocked(i) ==
  Awaiting(i) =>
    /\ ~Answered(LastQuery(i))
    /\ host[i].opened = <<>>
    /\ host[i].errorMessages = <<>>

\* a waiting invocation moves only when its query returns
MovesOnlyOnReturn(i) ==
  (Awaiting(i) /\ git'[i] = git[i]) => (inv'[i] = inv[i] /\ host'[i] = host[i])

\* C17: when every issued git query returns, every invocation that waits on
\* one reaches its terminal outcome (URL opened or error shown), after at
\* most five queries (root, remote, has-commits probe, abbreviated ref,
\* commit hash) and without issuing a failed command again; and
\* as long as its query has not returned, the invocation stays where it is
\* and has neither opened a URL nor shown an error.
C17_TerminatesOrStaysBlocked ==
  /\ [](\A i \in Invs :
          Len(git[i]) <= 5 /\ NoReissue(i) /\ SilentWhileBlocked(i))
  /\ [][\A i \in Invs : MovesOnlyOnReturn(i)]_vars
  /\ \A i \in Invs : Awaiting(i) ~> Terminal(i)

\* an invocation ended with an error after its second query failed
C17_Witness ==
  \E i \in Invs :
    /\ Terminal(i)
    /\ Len(git[i]) = 2
    /\ Failed(git[i][2])
    /\ host[i].errorMessages = <<"Could not determine GitHub repository information">>

-----------------------------------------------------------------------------
(* C18 *)

\* the promise of the k-th query of the log
SettledAt(log, k) == executeCommand(log[k].outcome)

\* what getCurrentBranch returns for the answers to the branch queries of log
AloneBranch(log) ==
  IF SettledAt(log, 3).kind = "throw" THEN symbolicRefBranch(SettledAt(log, 4))
  ELSE IF SettledAt(log, 4).kind = "throw" THEN JSNull
  ELSE IF SettledAt(log, 4).val = JSStr("HEAD") THEN commitHashBranch(SettledAt(log, 5))
  ELSE SettledAt(log, 4).val

\* what getRepoInfo returns and logs for the answers of log, run on its own
AloneRepoInfo(log) ==
  IF Falsy(getGitRootPath(SettledAt(log, 1)))
  THEN getRepoInfoFail("Not a git repository", "")
  ELSE IF Falsy(getRemoteUrl(SettledAt(log, 2)))
  THEN getRepoInfoFail("No GitHub remote found", ", check remote configuration")
  ELSE IF Falsy(AloneBranch(log))
  THEN getRepoInfoFail("Could not determine current branch or commit", "")
  ELSE getRepoInfoOk(getRemoteUrl(SettledAt(log, 2)), AloneBranch(log),
                     getGitRootPath(SettledAt(log, 1)))

\* what the host sees of an invocation that read the editor ed, got the
\* answers of log to its queries, and whose host calls went as `call`
AloneOutcome(ed, log, call) ==
  IF Falsy(ed) THEN NoActiveEditor(QuietHost)
  ELSE HandlerReport([QuietHost EXCEPT !.consoleError = AloneRepoInfo(log).logs],
                     AloneRepoInfo(log).completion,
                     HandlerBuild(ReadEditor(IdleInvocation, ed),
                                  AloneRepoInfo(log).completion),
                     call)

SameOutcome(h, alone) ==
  /\ h.errorMessages = alone.errorMessages
  /\ h.opened = alone.opened
  /\ h.consoleLog = alone.consoleLog
  /\ h.consoleError = alone.consoleError

\* C18: whatever the interleaving of two invocations and the changes of the
\* active editor while they wait, what a completed invocation opened or
\* reported is what it opens or reports when run alone with the editor (file
\* path and selection) it read when it started and the answers to its own
\* queries; its first query runs in the directory of the file it read.
C18_IndependentInvocations ==
  \A i \in Invs :
    Completed(i) =>
      /\ \E call \in HostCalls :
           SameOutcome(host[i], AloneOutcome(inv[i].editor, git[i], call))
      /\ git[i] # <<>> =>
           git[i][1].cwd = path_dirname(JSStr(inv[i].editor.fsPath)).val.v

\* both invocations opened their URL, each for the editor it had read, and
\* the active editor is closed by now
C18_Witness ==
  /\ Falsy(editor)
  /\ Completed("inv1") /\ Completed("inv2")
  /\ host["inv1"].opened =
       <<"https://github.com/acme/widget/blob/feature/src/file.ts#L2-L3">>
  /\ host["inv2"].opened =
       <<"https://github.com/acme/widget/blob/abcdef1234567890/../work/link/main.c#L1">>

====
